---- MODULE Spec2Model ----
(***************************************************************************)
(* netpod_base: a one-request-per-connection RPC runtime over a Unix       *)
(* socket.  The model covers the framer (read_request / decode_request),   *)
(* the Request wire decoding, the dispatcher (handle_request,              *)
(* handle_describe, handle_invoke), the per-connection lifecycle           *)
(* (handle_client) and the accept loop (run_server).                       *)
(*                                                                         *)
(* Strings and byte buffers are sequences of one-character strings, so     *)
(* that the framer and the codec work on bytes as the code does.           *)
(***************************************************************************)
EXTENDS Integers, Sequences, FiniteSets, TLC

\* ------------------------------------------------------------------------
\* Bounds of the model
\* ------------------------------------------------------------------------

\* Number of connections the environment opens in SpecIso.
MaxConns == 2

\* Size of the stack buffer handed to stream.read (lib.rs:112, 1024 * 2).
BUFFER_SIZE == 2048

Conns == 1..MaxConns

\* ------------------------------------------------------------------------
\* Bytes and strings
\* ------------------------------------------------------------------------

\* The bytes that occur on the wire in this model, in ASCII order.
Alphabet ==
  << "-", "/", "0", "1", "2", "3", "4", "5", "6", "7", "8", "9", ":",
     "a", "b", "c", "d", "e", "g", "i", "k", "l", "m", "n", "o", "p", "r",
     "s", "u", "v", "x", "y" >>

Code(c) == CHOOSE i \in 1..Len(Alphabet) : Alphabet[i] = c

Digits == {"0", "1", "2", "3", "4", "5", "6", "7", "8", "9"}

DigitVal(c) == Code(c) - Code("0")

\* Option<T>
None == [some |-> FALSE]
Some(v) == [some |-> TRUE, v |-> v]

\* Lexicographic order on byte strings (the order of &[u8]).
RECURSIVE BytesLess(_, _)
BytesLess(a, b) ==
  IF b = << >> THEN FALSE
  ELSE IF a = << >> THEN TRUE
  ELSE IF Code(Head(a)) < Code(Head(b)) THEN TRUE
  ELSE IF Code(Head(a)) > Code(Head(b)) THEN FALSE
  ELSE BytesLess(Tail(a), Tail(b))

\* Index of the first occurrence of byte c in s, 0 when there is none.
RECURSIVE IndexOf(_, _, _)
IndexOf(s, c, i) ==
  IF i > Len(s) THEN 0
  ELSE IF s[i] = c THEN i
  ELSE IndexOf(s, c, i + 1)

\* Faulty variant of split_once: the split is at the last separator (rsplit_once).
RECURSIVE LastIndexOf(_, _, _)
LastIndexOf(s, c, i) ==
  IF i < 1 THEN 0
  ELSE IF s[i] = c THEN i
  ELSE LastIndexOf(s, c, i - 1)

rsplit_once(s, sep) ==
  LET i == LastIndexOf(s, sep, Len(s)) IN
  IF i = 0 THEN None
  ELSE Some(<< SubSeq(s, 1, i - 1), SubSeq(s, i + 1, Len(s)) >>)

\* str::split_once: None, or the parts before and after the first separator.
split_once(s, sep) ==
  LET i == IndexOf(s, sep, 1) IN
  IF i = 0 THEN None
  ELSE Some(<< SubSeq(s, 1, i - 1), SubSeq(s, i + 1, Len(s)) >>)

\* The wire words of the Request schema.
K_ID == << "i", "d" >>
K_VAR == << "v", "a", "r" >>
K_ARGS == << "a", "r", "g", "s" >>
K_OP == << "o", "p" >>
W_DESCRIBE == << "d", "e", "s", "c", "r", "i", "b", "e" >>
W_INVOKE == << "i", "n", "v", "o", "k", "e" >>

\* ------------------------------------------------------------------------
\* Data model
\* ------------------------------------------------------------------------

\* Op::from_str
Op_from_str(s) ==
  IF s = W_DESCRIBE THEN Some("Describe")
  ELSE IF s = W_INVOKE THEN Some("Invoke")
  ELSE None

\* struct Request
MkRequest(op, id, var, args) == [op |-> op, id |-> id, var |-> var, args |-> args]

\* Faulty variant of DefaultRequest: the operation starts as Invoke.
DefaultRequestInvoke == MkRequest("Invoke", None, None, None)

\* The Request decode_bencode_object starts from (impls.rs:9-12).
DefaultRequest == MkRequest("Describe", None, None, None)

\* Status::as_str
Status_as_str(st) == IF st = "Done" THEN "done" ELSE "error"

\* NetpodError and its Display (error.rs): Message(s) prints s, the others
\* print a prefix and the wrapped error.
ErrMessage(parts) == [kind |-> "Message", text |-> parts]
ErrBendyEncoding(e) == [kind |-> "BendyEncoding", text |-> << e >>]
ErrBendyDecoding(e) == [kind |-> "BendyDecoding", text |-> << e >>]
ErrIO(e) == [kind |-> "IO", text |-> << e >>]

NetpodError_to_string(err) ==
  IF err.kind = "Message" THEN err.text
  ELSE IF err.kind = "IO" THEN << "netpod io error: " >> \o err.text
  ELSE IF err.kind = "BendyDecoding" THEN << "bendy decoding error: " >> \o err.text
  ELSE << "bendy encoding error: " >> \o err.text

\* Faulty variant of err_response: the status is copied from invoke_response.
err_response_done(id, err) ==
  [variant |-> "Error", id |-> id, status |-> "Done",
   ex_message |-> NetpodError_to_string(err)]

\* pub fn err_response
err_response(id, err) ==
  [variant |-> "Error", id |-> id, status |-> "Error",
   ex_message |-> NetpodError_to_string(err)]

\* pub fn invoke_response
invoke_response(id, value) ==
  [variant |-> "Invoke", id |-> id, status |-> "Done", value |-> value]

\* ------------------------------------------------------------------------
\* Wire decoding of a Request (bendy's FromBencode::from_bencode driving
\* Request::decode_bencode_object)
\* ------------------------------------------------------------------------

DecodeOk(req) == [ok |-> TRUE, req |-> req, err |-> "", field |-> << >>]
DecodeErr(kind, f) == [ok |-> FALSE, req |-> DefaultRequest, err |-> kind, field |-> f]

TokFail(kind) == [ok |-> FALSE, err |-> kind, s |-> << >>, next |-> 0]

\* The decimal length prefix of a byte string starting at p, up to its ':'.
RECURSIVE ScanLen(_, _, _, _)
ScanLen(b, p, acc, first) ==
  IF p > Len(b) THEN [ok |-> FALSE, err |-> "UnexpectedEof", n |-> 0, next |-> 0]
  ELSE IF b[p] = ":" THEN [ok |-> TRUE, err |-> "", n |-> acc, next |-> p + 1]
  ELSE IF b[p] \in Digits /\ ~(p > first /\ b[first] = "0")
    THEN ScanLen(b, p + 1, acc * 10 + DigitVal(b[p]), first)
  ELSE [ok |-> FALSE, err |-> "SyntaxError", n |-> 0, next |-> 0]

\* A byte-string token "<len>:<bytes>" starting at p.
ReadBytes(b, p) ==
  LET l == ScanLen(b, p, 0, p) IN
  IF ~l.ok THEN TokFail(l.err)
  ELSE IF l.next + l.n - 1 > Len(b) THEN TokFail("UnexpectedEof")
  ELSE [ok |-> TRUE, err |-> "", s |-> SubSeq(b, l.next, l.next + l.n - 1),
        next |-> l.next + l.n]

\* An integer token "i<digits>e" starting at p (p holds the 'i').
RECURSIVE ScanInt(_, _, _)
ScanInt(b, p, seen) ==
  IF p > Len(b) THEN TokFail("UnexpectedEof")
  ELSE IF b[p] = "e" THEN
    IF seen THEN [ok |-> TRUE, err |-> "", s |-> << >>, next |-> p + 1]
    ELSE TokFail("SyntaxError")
  ELSE IF b[p] \in Digits THEN ScanInt(b, p + 1, TRUE)
  ELSE IF b[p] = "-" /\ ~seen /\ b[p - 1] = "i" THEN ScanInt(b, p + 1, FALSE)
  ELSE TokFail("SyntaxError")

\* The first token of the value at p, as next_object reads it: its kind, and
\* for a byte string its content.  Lists and dictionaries are handed out
\* lazily, so only their opening token is read here.
ReadValue(b, p) ==
  IF p > Len(b) THEN [ok |-> FALSE, err |-> "UnexpectedEof", kind |-> "", s |-> << >>, next |-> 0]
  ELSE IF b[p] \in Digits THEN
    LET t == ReadBytes(b, p) IN
    [ok |-> t.ok, err |-> t.err, kind |-> "Bytes", s |-> t.s, next |-> t.next]
  ELSE IF b[p] = "i" THEN
    LET t == ScanInt(b, p + 1, FALSE) IN
    [ok |-> t.ok, err |-> t.err, kind |-> "Integer", s |-> << >>, next |-> t.next]
  ELSE IF b[p] = "l" THEN
    [ok |-> TRUE, err |-> "", kind |-> "List", s |-> << >>, next |-> p + 1]
  ELSE IF b[p] = "d" THEN
    [ok |-> TRUE, err |-> "", kind |-> "Dict", s |-> << >>, next |-> p + 1]
  ELSE IF b[p] = "e" THEN
    [ok |-> FALSE, err |-> "InvalidState", kind |-> "", s |-> << >>, next |-> 0]
  ELSE [ok |-> FALSE, err |-> "SyntaxError", kind |-> "", s |-> << >>, next |-> 0]

\* One arm of the match in decode_bencode_object: the Request after the pair
\* (key, value) was applied.  The value is a byte string here.
ApplyField(req, key, s) ==
  IF key = K_ID THEN [req EXCEPT !.id = Some(s)]
  ELSE IF key = K_VAR THEN [req EXCEPT !.var = Some(s)]
  ELSE IF key = K_ARGS THEN [req EXCEPT !.args = Some(s)]
  ELSE \* K_OP: an unrecognised operation is logged and the default kept
    LET o == Op_from_str(s) IN
    IF o.some THEN [req EXCEPT !.op = o.v] ELSE req

\* Faulty variant of DecodePairs: a pair with an unrecognised key is skipped.
RECURSIVE DecodePairsSkipUnknown(_, _, _, _)
DecodePairsSkipUnknown(b, p, last, req) ==
  IF p > Len(b) THEN DecodeErr("UnexpectedEof", << >>)
  ELSE IF b[p] = "e" THEN DecodeOk(req)
  ELSE IF b[p] \notin Digits THEN
    DecodeErr(IF b[p] \in {"i", "l", "d"} THEN "InvalidState" ELSE "SyntaxError", << >>)
  ELSE
    LET k == ReadBytes(b, p) IN
    IF ~k.ok THEN DecodeErr(k.err, << >>)
    ELSE IF last.some /\ ~BytesLess(last.v, k.s) THEN DecodeErr("UnsortedKeys", << >>)
    ELSE
      LET v == ReadValue(b, k.next) IN
      IF ~v.ok THEN DecodeErr(v.err, << >>)
      ELSE IF v.kind \notin {"Bytes", "Integer"} THEN DecodeErr("UnexpectedToken", k.s)
      ELSE IF k.s \notin {K_ID, K_VAR, K_ARGS, K_OP}
        THEN DecodePairsSkipUnknown(b, v.next, Some(k.s), req)
      ELSE IF v.kind # "Bytes" THEN DecodeErr("UnexpectedToken", k.s)
      ELSE DecodePairsSkipUnknown(b, v.next, Some(k.s), ApplyField(req, k.s, v.s))

\* The while-let loop over dict.next_pair(): p is the read position, last the
\* previous key (keys must come strictly ascending), req the fields so far.
RECURSIVE DecodePairs(_, _, _, _)
DecodePairs(b, p, last, req) ==
  IF p > Len(b) THEN DecodeErr("UnexpectedEof", << >>)
  ELSE IF b[p] = "e" THEN DecodeOk(req)
  ELSE IF b[p] \notin Digits THEN
    DecodeErr(IF b[p] \in {"i", "l", "d"} THEN "InvalidState" ELSE "SyntaxError", << >>)
  ELSE
    LET k == ReadBytes(b, p) IN
    IF ~k.ok THEN DecodeErr(k.err, << >>)
    ELSE IF last.some /\ ~BytesLess(last.v, k.s) THEN DecodeErr("UnsortedKeys", << >>)
    ELSE
      LET v == ReadValue(b, k.next) IN
      IF ~v.ok THEN DecodeErr(v.err, << >>)
      ELSE IF k.s \notin {K_ID, K_VAR, K_ARGS, K_OP} THEN DecodeErr("UnexpectedField", k.s)
      ELSE IF v.kind # "Bytes" THEN DecodeErr("UnexpectedToken", k.s)
      ELSE DecodePairs(b, v.next, Some(k.s), ApplyField(req, k.s, v.s))

\* Request::decode_bencode_object on the first object of the buffer: it must
\* be a dictionary (try_into_dictionary).
decode_bencode_object(b) ==
  IF b[1] = "d" THEN DecodePairs(b, 2, None, DefaultRequest)
  ELSE
    LET v == ReadValue(b, 1) IN
    IF v.ok THEN DecodeErr("UnexpectedToken", << >>) ELSE DecodeErr(v.err, << >>)

\* Request::from_bencode: decodes the first object of the buffer; bytes after
\* it are not looked at.
from_bencode(b) ==
  IF b = << >> THEN DecodeErr("UnexpectedEof", << >>)
  ELSE decode_bencode_object(b)

\* Faulty variant of decode_request: the trailing delimiter alone is taken as the
\* end of the message, and whatever fields parse are returned.
decode_request_delimiter_only(buffer) ==
  IF Len(buffer) = 0 THEN
    [kind |-> "panic", req |-> DefaultRequest, err |-> "index out of bounds", full |-> FALSE,
     field |-> << >>]
  ELSE IF buffer[Len(buffer)] = "e" THEN
    [kind |-> "ok", req |-> from_bencode(buffer).req, err |-> "", full |-> TRUE,
     field |-> << >>]
  ELSE [kind |-> "err", req |-> DefaultRequest, err |-> "keep reading", full |-> FALSE,
        field |-> << >>]

\* Faulty variant of decode_request: the full decode is attempted whatever
\* the last byte is.
decode_request_always_full(buffer) ==
  IF Len(buffer) = 0 THEN
    [kind |-> "panic", req |-> DefaultRequest, err |-> "index out of bounds", full |-> FALSE,
     field |-> << >>]
  ELSE
    LET r == from_bencode(buffer) IN
    [kind |-> IF r.ok THEN "ok" ELSE "err", req |-> r.req, err |-> r.err, full |-> TRUE,
     field |-> r.field]

\* fn decode_request.  buffer[buffer.len() - 1] on an empty buffer panics
\* (the subtraction overflows in a debug build; in a release build it wraps
\* and the index is out of bounds).  kind is "panic", "ok" or "err"; full
\* tells whether Request::from_bencode was called.
decode_request(buffer) ==
  IF Len(buffer) = 0 THEN
    [kind |-> "panic", req |-> DefaultRequest, err |-> "index out of bounds", full |-> FALSE,
     field |-> << >>]
  ELSE IF buffer[Len(buffer)] = "e" THEN
    LET r == from_bencode(buffer) IN
    [kind |-> IF r.ok THEN "ok" ELSE "err", req |-> r.req, err |-> r.err, full |-> TRUE,
     field |-> r.field]
  ELSE [kind |-> "err", req |-> DefaultRequest, err |-> "keep reading", full |-> FALSE,
        field |-> << >>]

\* Faulty variant of extend_from_slice: the buffer is overwritten by the chunk read.
overwrite_with_slice(data, chunk) == chunk

\* data.extend_from_slice(&buffer[..bytes_read])
extend_from_slice(data, chunk) == data \o chunk

\* ------------------------------------------------------------------------
\* Wire encoding of a Response (impls.rs): a dictionary is the sequence of
\* the pairs emitted, in emission order
\* ------------------------------------------------------------------------

Var_encode(v) == << << "name", v >> >>

Namespace_encode(ns) ==
  << << "name", ns.name >>,
     << "vars", [i \in 1..Len(ns.vars) |-> Var_encode(ns.vars[i])] >> >>

DescribeResponse_encode(r) ==
  << << "format", r.format >>,
     << "namespaces", [i \in 1..Len(r.namespaces) |-> Namespace_encode(r.namespaces[i])] >> >>

ErrorResponse_encode(r) ==
  << << "ex-message", r.ex_message >> >>
  \o (IF r.id.some THEN << << "id", r.id.v >> >> ELSE << >>)
  \o << << "status", Status_as_str(r.status) >> >>

InvokeResponse_encode(r) ==
  << << "id", r.id >>, << "status", Status_as_str(r.status) >>, << "value", r.value >> >>

\* impl ToBencode for Response
Response_encode(r) ==
  IF r.variant = "Error" THEN ErrorResponse_encode(r)
  ELSE IF r.variant = "Describe" THEN DescribeResponse_encode(r)
  ELSE InvokeResponse_encode(r)

\* ------------------------------------------------------------------------
\* Registry and dispatcher
\* ------------------------------------------------------------------------

S_MA == << "m", "/", "a" >>
S_MS == << "m", "/", "s" >>
S_SU == << "s", "/", "u" >>
S_MAB == << "m", "/", "a", "/", "b" >>
S_X == << "x" >>
S_M == << "m" >>
S_A == << "a" >>

\* The handler maps run_server is started with: key |-> the callable's
\* behaviour.  Keys without '/', with two '/', and the empty map are there.
Registries ==
  { (S_MA :> "echo") @@ (S_MS :> "fail") @@ (S_SU :> "reject"),
    (S_X :> "echo") @@ (S_MAB :> "echo") @@ (S_MA :> "fail"),
    << >> }

\* Result<Response, NetpodError>
Ok(resp) == [ok |-> TRUE, resp |-> resp, err |-> ErrMessage(<< >>)]
Err(e) == [ok |-> FALSE, resp |-> [variant |-> "None"], err |-> e]

UnwrapOr(opt, d) == IF opt.some THEN opt.v ELSE d

\* What a registered callable (HandlerFn) returns for a request.  "echo"
\* answers invoke_response(id, args); "reject" answers an ErrorResponse of
\* its own; "fail" returns Err.
CallableResult(behaviour, req) ==
  IF behaviour = "echo" THEN
    Ok(invoke_response(UnwrapOr(req.id, << >>), UnwrapOr(req.args, << >>)))
  ELSE IF behaviour = "reject" THEN
    Ok(err_response(req.id, ErrMessage(<< "rejected" >>)))
  ELSE Err(ErrMessage(<< "boom" >>))

\* All orders in which a HashMap may hand out the elements of S.
Perms(S) ==
  { f \in [1..Cardinality(S) -> S] : \A i, j \in 1..Cardinality(S) : i # j => f[i] # f[j] }

\* The for loop of handle_describe over the keys in iteration order ks:
\* name_map after the keys from position i on were entered.
RECURSIVE DescribeFold(_, _, _)
DescribeFold(ks, i, name_map) ==
  IF i > Len(ks) THEN name_map
  ELSE
    LET sp == split_once(ks[i], "/") IN
    IF ~sp.some THEN DescribeFold(ks, i + 1, name_map)
    ELSE
      LET ns == sp.v[1]
          var == sp.v[2]
      IN IF ns \in DOMAIN name_map
           THEN DescribeFold(ks, i + 1, [name_map EXCEPT ![ns] = Append(@, var)])
           ELSE DescribeFold(ks, i + 1, name_map @@ (ns :> << var >>))

\* fn handle_describe: every DescribeResponse it can return (the iteration
\* orders of the two HashMaps are not fixed).
handle_describe(handler_map) ==
  { [variant |-> "Describe", format |-> "json",
     namespaces |-> [i \in 1..Len(o) |-> [name |-> o[i], vars |-> nm[o[i]]]]]
    : o \in UNION { Perms(DOMAIN DescribeFold(ks, 1, << >>)) : ks \in Perms(DOMAIN handler_map) },
      nm \in { DescribeFold(ks, 1, << >>) : ks \in Perms(DOMAIN handler_map) } }

\* Faulty variant of handle_invoke: a miss answers without the request's id.
handle_invoke_miss_drops_id(handler_map, req) ==
  IF req.var.some /\ req.var.v \in DOMAIN handler_map THEN
    [kind |-> "call", key |-> req.var.v, result |-> Ok([variant |-> "None"])]
  ELSE
    [kind |-> "miss", key |-> << >>,
     result |-> Ok(err_response(None, ErrMessage(<< "request lacks var name" >>)))]

\* Faulty variant of handle_invoke: the var is looked up by namespace, and the first
\* callable of the namespace is invoked.
handle_invoke_by_namespace(handler_map, req) ==
  LET ns == IF req.var.some /\ split_once(req.var.v, "/").some
              THEN split_once(req.var.v, "/").v[1] ELSE << >>
      same == { k \in DOMAIN handler_map :
                  split_once(k, "/").some /\ split_once(k, "/").v[1] = ns }
  IN IF same # {} THEN
       [kind |-> "call", key |-> CHOOSE k \in same : \A j \in same : j = k \/ BytesLess(k, j),
        result |-> Ok([variant |-> "None"])]
     ELSE
       [kind |-> "miss", key |-> << >>,
        result |-> Ok(err_response(req.id, ErrMessage(<< "request lacks var name" >>)))]

\* fn handle_invoke up to the call of the callable: "miss" with the
\* ErrorResponse returned, or "call" with the key whose callable is invoked.
handle_invoke(handler_map, req) ==
  IF req.var.some THEN
    IF req.var.v \in DOMAIN handler_map THEN
      [kind |-> "call", key |-> req.var.v, result |-> Ok([variant |-> "None"])]
    ELSE
      [kind |-> "miss", key |-> << >>,
       result |-> Ok(err_response(req.id,
                        ErrMessage(<< "error no handler for ", req.var.v >>)))]
  ELSE
    [kind |-> "miss", key |-> << >>,
     result |-> Ok(err_response(req.id, ErrMessage(<< "request lacks var name" >>)))]

\* ------------------------------------------------------------------------
\* What peers send
\* ------------------------------------------------------------------------

\* The decimal digits of n.
RECURSIVE Decimal(_)
Decimal(n) ==
  IF n < 10 THEN << Alphabet[Code("0") + n] >>
  ELSE Decimal(n \div 10) \o << Alphabet[Code("0") + (n % 10)] >>

\* A bencode byte string.
BStr(s) == Decimal(Len(s)) \o << ":" >> \o s

BPair(k, opt) == IF opt.some THEN BStr(k) \o BStr(opt.v) ELSE << >>

\* The canonical encoding of a request dictionary with the given (optional)
\* field values; op is the operation string as sent.
EncodeRequest(w) ==
  << "d" >> \o BPair(K_ARGS, w.args) \o BPair(K_ID, w.id) \o BPair(K_OP, w.op)
  \o BPair(K_VAR, w.var) \o << "e" >>

WireIds == {None, Some(<< "7" >>), Some(<< "e" >>)}
WireVars == {None, Some(S_MA), Some(S_MS), Some(S_SU), Some(S_X), Some(S_M), Some(S_A)}
WireArgs == {None, Some(<< "e", "1" >>)}

\* Request dictionaries of callers: every Invoke, and the other operation
\* strings (absent, "describe", unrecognised) with fewer field combinations.
WireInvokes ==
  { [op |-> Some(W_INVOKE), id |-> i, var |-> v, args |-> a]
    : i \in WireIds, v \in WireVars, a \in WireArgs }

WireOthers ==
  { [op |-> o, id |-> i, var |-> v, args |-> None]
    : o \in {None, Some(W_DESCRIBE), Some(<< "n", "o", "p" >>)},
      i \in WireIds, v \in {None, Some(S_MA)} }

ValidMessages == { EncodeRequest(w) : w \in WireInvokes \cup WireOthers }

\* Byte streams that are no request: nothing at all, garbage, a truncated
\* dictionary, an unknown field, a non-dictionary, unsorted keys, a field of
\* the wrong type, and a dictionary followed by more bytes.
M_EMPTY == << >>
M_GARBAGE == << "x" >>
M_TRUNCATED == << "d", "2", ":", "i", "d", "1", ":", "e" >>
M_UNKNOWN == << "d", "1", ":", "x", "1", ":", "y", "e" >>
M_BOGUS_OP == << "d" >> \o BStr(<< "b", "o", "g", "u", "s" >>) \o BStr(<< "x" >>)
              \o BStr(K_OP) \o BStr(W_DESCRIBE) \o << "e" >>
M_INTEGER == << "i", "1", "e" >>
M_LIST == << "l", "e" >>
M_UNSORTED == << "d" >> \o BStr(K_VAR) \o BStr(S_X) \o BStr(K_ID) \o BStr(<< "7" >>) \o << "e" >>
M_BADTYPE == << "d", "2", ":", "i", "d", "i", "1", "e", "e" >>
M_TRAILING == << "d", "e", "e" >>

MalformedMessages ==
  { M_EMPTY, M_GARBAGE, M_TRUNCATED, M_UNKNOWN, M_BOGUS_OP, M_INTEGER, M_LIST,
    M_UNSORTED, M_BADTYPE }

\* Dictionaries with a key outside id, var, args, op, as sequences of
\* << key, encoded value >>: the unknown key alone, after a valid field,
\* with an integer value, after a field of the wrong type, after another
\* unknown key, and before a valid field.
B_INT == << "i", "1", "e" >>
D_UNKNOWN == << << << "x" >>, BStr(<< "y" >>) >> >>
D_UNKNOWN_LAST == << << K_ID, BStr(<< "7" >>) >>, << << "x" >>, BStr(<< "y" >>) >> >>
D_UNKNOWN_INT == << << << "x" >>, B_INT >> >>
D_UNKNOWN_BADID == << << K_ID, B_INT >>, << << "x" >>, BStr(<< "y" >>) >> >>
D_UNKNOWN_TWO == << << << "a" >>, BStr(<< "b" >>) >>, << << "x" >>, BStr(<< "y" >>) >> >>
D_BOGUS_OP == << << << "b", "o", "g", "u", "s" >>, BStr(<< "x" >>) >>,
                 << K_OP, BStr(W_DESCRIBE) >> >>

UnknownFieldDicts ==
  { D_UNKNOWN, D_UNKNOWN_LAST, D_UNKNOWN_INT, D_UNKNOWN_BADID, D_UNKNOWN_TWO, D_BOGUS_OP }

RECURSIVE EncodePairs(_)
EncodePairs(d) ==
  IF d = << >> THEN << >> ELSE BStr(d[1][1]) \o d[1][2] \o EncodePairs(Tail(d))

EncodeDict(d) == << "d" >> \o EncodePairs(d) \o << "e" >>

UnknownFieldMessages == { EncodeDict(d) : d \in UnknownFieldDicts }

Messages == ValidMessages \cup MalformedMessages \cup UnknownFieldMessages \cup {M_TRAILING}

\* SpecIso: odd connections are malformed ones, even ones send an Invoke.
IsoMalformed == { M_EMPTY, M_GARBAGE, M_UNKNOWN }
IsoInvokes ==
  { EncodeRequest([op |-> Some(W_INVOKE), id |-> Some(<< "7" >>), var |-> Some(S_MA), args |-> None]),
    EncodeRequest([op |-> Some(W_INVOKE), id |-> None, var |-> Some(S_MS), args |-> None]),
    EncodeRequest([op |-> Some(W_INVOKE), id |-> None, var |-> Some(S_M), args |-> None]) }
\* The byte streams of the runs with a Describe next to an Invoke: the first
\* connection sends an Invoke or nothing, the second a Describe (bare, or
\* with id, var and args), any further one nothing.
DescribeProbes ==
  { EncodeRequest([op |-> None, id |-> None, var |-> None, args |-> None]),
    EncodeRequest([op |-> None, id |-> Some(<< "7" >>), var |-> Some(S_MA),
                   args |-> Some(<< "e", "1" >>)]) }
DescribeOthers ==
  { EncodeRequest([op |-> Some(W_INVOKE), id |-> None, var |-> Some(S_MA), args |-> None]),
    M_EMPTY }

IsoRegistry == (S_MA :> "echo") @@ (S_MS :> "fail") @@ (S_SU :> "reject")

\* ------------------------------------------------------------------------
\* State
\* ------------------------------------------------------------------------

VARIABLES
  mode,       \* "single": one connection, any message; "iso": MaxConns connections
  registry,   \* the handler map, shared and never changed
  listener,   \* the accept loop of run_server: "listening" | "failed"
  quota,      \* connections the environment still opens
  pc,         \* per connection: the stage of handle_client
  sent,       \* per connection: all the bytes its peer sends
  pending,    \* per connection: bytes sent and not yet read
  peerShut,   \* per connection: the peer has closed its write side
  data,       \* per connection: read_request's buffer
  lastDecode, \* per connection: the last decode_request call: "none" | "skipped" | "full"
  looped,     \* per connection: the read loop has taken its continue branch
  eofRead,    \* per connection: a read has returned zero bytes
  failure,    \* per connection: the error read_request returned, [err, field]
  request,    \* per connection: Option<Request> returned by read_request
  result,     \* per connection: Option<Result<Response, NetpodError>> of handle_request
  outbuf,     \* per connection: Option of the encoded bytes to write
  fallback,   \* per connection: the bytes to write are the encode fallback's
  writes,     \* per connection: the write_all calls, each [buf, ok]
  calls,      \* per connection: the callables invoked, each [key, req]
  outcome     \* per connection: how the task ended, "" while it runs

vars ==
  << mode, registry, listener, quota, pc, sent, pending, peerShut, data, lastDecode,
     looped, eofRead, failure, request, result, outbuf, fallback, writes, calls, outcome >>

connVars ==
  << pc, sent, pending, peerShut, data, lastDecode, looped, eofRead, failure, request,
     result, outbuf, fallback, writes, calls, outcome >>

\* No error: read_request has not failed.
NoFailure == [err |-> "", field |-> << >>]

\* decode_request on every buffer the reads of a peer's bytes can build up,
\* worked out once; other buffers are decoded when they come up.
DecodeTable ==
  [b \in UNION { { SubSeq(m, 1, n) : n \in 1..Len(m) } : m \in Messages }
     |-> decode_request(b)]

decode_request_of(buffer) ==
  IF buffer \in DOMAIN DecodeTable THEN DecodeTable[buffer] ELSE decode_request(buffer)

Feed(c) ==
  IF mode = "single" THEN Messages
  ELSE IF mode = "describe" THEN
    (IF c = 1 THEN DescribeOthers ELSE IF c = 2 THEN DescribeProbes ELSE {M_EMPTY})
  ELSE IF c % 2 = 1 THEN IsoMalformed
  ELSE IsoInvokes

InitConns ==
  /\ listener = "listening"
  /\ pc = [c \in Conns |-> "Idle"]
  /\ sent = [c \in Conns |-> << >>]
  /\ pending = [c \in Conns |-> << >>]
  /\ peerShut = [c \in Conns |-> FALSE]
  /\ data = [c \in Conns |-> << >>]
  /\ lastDecode = [c \in Conns |-> "none"]
  /\ looped = [c \in Conns |-> FALSE]
  /\ eofRead = [c \in Conns |-> FALSE]
  /\ failure = [c \in Conns |-> NoFailure]
  /\ request = [c \in Conns |-> None]
  /\ result = [c \in Conns |-> None]
  /\ outbuf = [c \in Conns |-> None]
  /\ fallback = [c \in Conns |-> FALSE]
  /\ writes = [c \in Conns |-> << >>]
  /\ calls = [c \in Conns |-> << >>]
  /\ outcome = [c \in Conns |-> ""]

Init == mode = "single" /\ quota = 1 /\ registry \in Registries /\ InitConns

InitDescribe ==
  mode = "describe" /\ quota = MaxConns /\ registry \in {IsoRegistry, << >>} /\ InitConns

InitIso == mode = "iso" /\ quota = MaxConns /\ registry = IsoRegistry /\ InitConns

\* ------------------------------------------------------------------------
\* The accept loop (run_server)
\* ------------------------------------------------------------------------

Min(a, b) == IF a < b THEN a ELSE b

\* listener.accept() returns a stream and handle_client is spawned on it.
\* The peer's bytes are all in flight from here on; how they are cut into
\* reads is decided read by read.
Accept(c) ==
  /\ listener = "listening"
  /\ quota > 0
  /\ pc[c] = "Idle"
  /\ \A d \in Conns : d < c => pc[d] # "Idle"
  /\ \E m \in Feed(c) :
       /\ sent' = [sent EXCEPT ![c] = m]
       /\ pending' = [pending EXCEPT ![c] = m]
  /\ pc' = [pc EXCEPT ![c] = "Framing"]
  /\ quota' = quota - 1
  /\ UNCHANGED << mode, registry, listener, peerShut, data, lastDecode, looped, request, result,
                  outbuf, fallback, writes, calls, outcome >>
  /\ UNCHANGED << eofRead, failure >>

\* listener.accept() fails: run_server returns the error; the tasks already
\* spawned keep running.
AcceptFail ==
  /\ listener = "listening"
  /\ listener' = "failed"
  /\ UNCHANGED << mode, registry, quota >>
  /\ UNCHANGED connVars

\* ------------------------------------------------------------------------
\* The framer (read_request), one loop iteration per action
\* ------------------------------------------------------------------------

\* The peer closes its write side, having sent everything.  A read only
\* sees the close once the bytes in flight are drained, so it is taken then.
PeerShutdown(c) ==
  /\ pc[c] = "Framing"
  /\ pending[c] = << >>
  /\ ~peerShut[c]
  /\ peerShut' = [peerShut EXCEPT ![c] = TRUE]
  /\ UNCHANGED << mode, registry, listener, quota, pc, sent, pending, data, lastDecode, looped,
                  request, result, outbuf, fallback, writes, calls, outcome >>
  /\ UNCHANGED << eofRead, failure >>

\* Faulty variant of FramerStep: a failed decode at end of stream is retried
\* like any other.
FramerStepRetriesAtEof(c, r, eof) ==
  /\ lastDecode' = [lastDecode EXCEPT ![c] =
                      IF r.kind = "panic" THEN "panic"
                      ELSE IF r.full THEN "full" ELSE "skipped"]
  /\ eofRead' = [eofRead EXCEPT ![c] = eofRead[c] \/ eof]
  /\ IF r.kind = "panic" THEN
       \* the task unwinds; the runtime drops it and the stream with it
       /\ pc' = [pc EXCEPT ![c] = "Closed"]
       /\ outcome' = [outcome EXCEPT ![c] = "panicked"]
       /\ UNCHANGED << request, looped, failure >>
     ELSE IF r.kind = "ok" THEN
       /\ request' = [request EXCEPT ![c] = Some(r.req)]
       /\ pc' = [pc EXCEPT ![c] = "Dispatching"]
       /\ UNCHANGED << outcome, looped, failure >>
     ELSE
       \* Err(_e) => continue
       /\ looped' = [looped EXCEPT ![c] = TRUE]
       /\ UNCHANGED << pc, outcome, request, failure >>

\* What the loop body does with the outcome r of decode_request; eof tells
\* whether the read returned zero bytes.
FramerStep(c, r, eof) ==
  /\ lastDecode' = [lastDecode EXCEPT ![c] =
                      IF r.kind = "panic" THEN "panic"
                      ELSE IF r.full THEN "full" ELSE "skipped"]
  /\ eofRead' = [eofRead EXCEPT ![c] = eofRead[c] \/ eof]
  /\ IF r.kind = "panic" THEN
       \* the task unwinds; the runtime drops it and the stream with it
       /\ pc' = [pc EXCEPT ![c] = "Closed"]
       /\ outcome' = [outcome EXCEPT ![c] = "panicked"]
       /\ UNCHANGED << request, looped, failure >>
     ELSE IF r.kind = "ok" THEN
       /\ request' = [request EXCEPT ![c] = Some(r.req)]
       /\ pc' = [pc EXCEPT ![c] = "Dispatching"]
       /\ UNCHANGED << outcome, looped, failure >>
     ELSE IF eof THEN
       \* decode_request(&data)? returns the error to handle_client, which logs it
       /\ pc' = [pc EXCEPT ![c] = "Closed"]
       /\ outcome' = [outcome EXCEPT ![c] = "framing_failed"]
       /\ failure' = [failure EXCEPT ![c] =
                        [err |-> r.err, field |-> r.field]]
       /\ UNCHANGED << request, looped >>
     ELSE
       \* Err(_e) => continue
       /\ looped' = [looped EXCEPT ![c] = TRUE]
       /\ UNCHANGED << pc, outcome, request, failure >>

\* Faulty variant of ReadChunk: the tasks append to one buffer shared by all of them.
ReadChunkSharedBuffer(c) ==
  /\ pc[c] = "Framing"
  /\ pending[c] # << >>
  /\ \E n \in 1..Min(Len(pending[c]), BUFFER_SIZE) :
       LET chunk == SubSeq(pending[c], 1, n)
           grown == extend_from_slice(data[c], chunk)
       IN /\ pending' = [pending EXCEPT ![c] = SubSeq(pending[c], n + 1, Len(pending[c]))]
          /\ data' = [d \in Conns |-> extend_from_slice(data[d], chunk)]
          /\ FramerStep(c, decode_request_of(grown), FALSE)
  /\ UNCHANGED << mode, registry, listener, quota, sent, peerShut, result, outbuf,
                  fallback, writes, calls >>

\* stream.read returns n > 0 bytes.
ReadChunk(c) ==
  /\ pc[c] = "Framing"
  /\ pending[c] # << >>
  /\ \E n \in 1..Min(Len(pending[c]), BUFFER_SIZE) :
       LET chunk == SubSeq(pending[c], 1, n)
           grown == extend_from_slice(data[c], chunk)
       IN /\ pending' = [pending EXCEPT ![c] = SubSeq(pending[c], n + 1, Len(pending[c]))]
          /\ data' = [data EXCEPT ![c] = grown]
          /\ FramerStep(c, decode_request_of(grown), FALSE)
  /\ UNCHANGED << mode, registry, listener, quota, sent, peerShut, result, outbuf,
                  fallback, writes, calls >>

\* Faulty variant of ReadEof: a crash of the task takes the whole process down, the
\* accept loop with it.
ReadEofAbortsProcess(c) ==
  /\ pc[c] = "Framing"
  /\ pending[c] = << >>
  /\ peerShut[c]
  /\ FramerStep(c, decode_request_of(data[c]), TRUE)
  /\ listener' = IF decode_request_of(data[c]).kind = "panic" THEN "failed" ELSE listener
  /\ UNCHANGED << mode, registry, quota, sent, pending, peerShut, data, result,
                  outbuf, fallback, writes, calls >>

\* stream.read returns 0: end of stream.
ReadEof(c) ==
  /\ pc[c] = "Framing"
  /\ pending[c] = << >>
  /\ peerShut[c]
  /\ FramerStep(c, decode_request_of(data[c]), TRUE)
  /\ UNCHANGED << mode, registry, listener, quota, sent, pending, peerShut, data, result,
                  outbuf, fallback, writes, calls >>

\* Faulty variant of ReadError: the read error is answered with an ErrorResponse.
ReadErrorResponds(c) ==
  /\ pc[c] = "Framing"
  /\ outbuf' = [outbuf EXCEPT ![c] =
                  Some(Response_encode(err_response(None, ErrIO("read failed"))))]
  /\ writes' = [writes EXCEPT ![c] = Append(@, [buf |-> outbuf'[c].v, ok |-> TRUE])]
  /\ pc' = [pc EXCEPT ![c] = "Closed"]
  /\ outcome' = [outcome EXCEPT ![c] = "read_failed"]
  /\ UNCHANGED << mode, registry, listener, quota, sent, pending, peerShut, data,
                  lastDecode, looped, request, result, fallback, calls >>
  /\ failure' = [failure EXCEPT ![c] = [err |-> "IO", field |-> << >>]]
  /\ UNCHANGED eofRead

\* stream.read fails: the ? returns the I/O error to handle_client, which
\* logs it.
ReadError(c) ==
  /\ pc[c] = "Framing"
  /\ pc' = [pc EXCEPT ![c] = "Closed"]
  /\ outcome' = [outcome EXCEPT ![c] = "read_failed"]
  /\ UNCHANGED << mode, registry, listener, quota, sent, pending, peerShut, data,
                  lastDecode, looped, request, result, outbuf, fallback, writes, calls >>
  /\ failure' = [failure EXCEPT ![c] = [err |-> "IO", field |-> << >>]]
  /\ UNCHANGED eofRead

\* ------------------------------------------------------------------------
\* The connection task after framing (handle_client)
\* ------------------------------------------------------------------------

\* Faulty variant of Dispatch: a Describe that names a var is answered with
\* that var's namespace only.
DispatchDescribeByVar(c) ==
  /\ pc[c] = "Dispatching"
  /\ LET req == request[c].v IN
     IF req.op = "Describe" THEN
       /\ \E r \in handle_describe(registry) :
            LET sp == IF req.var.some THEN split_once(req.var.v, "/") ELSE None
                mine(ns) == ns.name = sp.v[1]
            IN result' = [result EXCEPT ![c] =
                            Some(Ok(IF sp.some
                                      THEN [r EXCEPT !.namespaces = SelectSeq(@, mine)]
                                      ELSE r))]
       /\ pc' = [pc EXCEPT ![c] = "Encoding"]
       /\ UNCHANGED calls
     ELSE
       LET h == handle_invoke(registry, req) IN
       IF h.kind = "miss" THEN
         /\ result' = [result EXCEPT ![c] = Some(h.result)]
         /\ pc' = [pc EXCEPT ![c] = "Encoding"]
         /\ UNCHANGED calls
       ELSE
         /\ calls' = [calls EXCEPT ![c] = Append(@, [key |-> h.key, req |-> req])]
         /\ pc' = [pc EXCEPT ![c] = "Invoking"]
         /\ UNCHANGED result
  /\ UNCHANGED << mode, registry, listener, quota, sent, pending, peerShut, data,
                  lastDecode, looped, request, outbuf, fallback, writes, outcome >>
  /\ UNCHANGED << eofRead, failure >>

\* handle_request up to its first suspension: Describe and an Invoke miss
\* return at once; an Invoke hit calls the callable and awaits it.
Dispatch(c) ==
  /\ pc[c] = "Dispatching"
  /\ LET req == request[c].v IN
     IF req.op = "Describe" THEN
       /\ \E r \in handle_describe(registry) :
            result' = [result EXCEPT ![c] = Some(Ok(r))]
       /\ pc' = [pc EXCEPT ![c] = "Encoding"]
       /\ UNCHANGED calls
     ELSE
       LET h == handle_invoke(registry, req) IN
       IF h.kind = "miss" THEN
         /\ result' = [result EXCEPT ![c] = Some(h.result)]
         /\ pc' = [pc EXCEPT ![c] = "Encoding"]
         /\ UNCHANGED calls
       ELSE
         /\ calls' = [calls EXCEPT ![c] = Append(@, [key |-> h.key, req |-> req])]
         /\ pc' = [pc EXCEPT ![c] = "Invoking"]
         /\ UNCHANGED result
  /\ UNCHANGED << mode, registry, listener, quota, sent, pending, peerShut, data,
                  lastDecode, looped, request, outbuf, fallback, writes, outcome >>
  /\ UNCHANGED << eofRead, failure >>

\* func(req).await completes.
HandlerReturn(c) ==
  /\ pc[c] = "Invoking"
  /\ LET call == calls[c][Len(calls[c])] IN
     result' = [result EXCEPT ![c] = Some(CallableResult(registry[call.key], call.req))]
  /\ pc' = [pc EXCEPT ![c] = "Encoding"]
  /\ UNCHANGED << mode, registry, listener, quota, sent, pending, peerShut, data,
                  lastDecode, looped, request, outbuf, fallback, writes, calls, outcome >>
  /\ UNCHANGED << eofRead, failure >>

\* The response handle_client encodes when handle_request returned Err(e).
handler_err_response(id, e) == err_response(None, e)

\* to_bencode succeeds on what handle_request returned (or, for Err(e), on
\* the ErrorResponse built from e).
EncodeOk(c) ==
  /\ pc[c] = "Encoding"
  /\ LET res == result[c].v
         resp == IF res.ok THEN res.resp
                 ELSE handler_err_response(request[c].v.id, res.err)
     IN outbuf' = [outbuf EXCEPT ![c] = Some(Response_encode(resp))]
  /\ pc' = [pc EXCEPT ![c] = "Responding"]
  /\ UNCHANGED << mode, registry, listener, quota, sent, pending, peerShut, data,
                  lastDecode, looped, request, result, fallback, writes, calls, outcome >>
  /\ UNCHANGED << eofRead, failure >>

\* Faulty variant of EncodeFallback: the fallback carries the request's id.
EncodeFallbackKeepsId(c) ==
  /\ pc[c] = "Encoding"
  /\ result[c].v.ok
  /\ outbuf' = [outbuf EXCEPT ![c] =
                  Some(Response_encode(err_response(request[c].v.id,
                                                    ErrBendyEncoding("encoding error"))))]
  /\ fallback' = [fallback EXCEPT ![c] = TRUE]
  /\ pc' = [pc EXCEPT ![c] = "Responding"]
  /\ UNCHANGED << mode, registry, listener, quota, sent, pending, peerShut, data,
                  lastDecode, looped, request, result, writes, calls, outcome >>
  /\ UNCHANGED << eofRead, failure >>

\* to_bencode fails on the Ok response and succeeds on the fallback
\* err_response(None, err.into()).
EncodeFallback(c) ==
  /\ pc[c] = "Encoding"
  /\ result[c].v.ok
  /\ outbuf' = [outbuf EXCEPT ![c] =
                  Some(Response_encode(err_response(None, ErrBendyEncoding("encoding error"))))]
  /\ fallback' = [fallback EXCEPT ![c] = TRUE]
  /\ pc' = [pc EXCEPT ![c] = "Responding"]
  /\ UNCHANGED << mode, registry, listener, quota, sent, pending, peerShut, data,
                  lastDecode, looped, request, result, writes, calls, outcome >>
  /\ UNCHANGED << eofRead, failure >>

\* Faulty variant of EncodeGiveUp: when nothing encodes, a bare error
\* dictionary naming the encode error is sent instead.
EncodeGiveUpSendsError(c) ==
  /\ pc[c] = "Encoding"
  /\ outbuf' = [outbuf EXCEPT ![c] =
                  Some(<< << "ex-message", << "bendy encoding error: ", "encoding error" >> >> >>)]
  /\ pc' = [pc EXCEPT ![c] = "Responding"]
  /\ UNCHANGED << mode, registry, listener, quota, sent, pending, peerShut, data,
                  lastDecode, looped, request, result, fallback, writes, calls, outcome >>
  /\ UNCHANGED << eofRead, failure >>

\* to_bencode fails on the last response there is to encode (the fallback,
\* or the ErrorResponse of a failed handler): nothing is written.
EncodeGiveUp(c) ==
  /\ pc[c] = "Encoding"
  /\ pc' = [pc EXCEPT ![c] = "Closed"]
  /\ outcome' = [outcome EXCEPT ![c] = "encode_failed"]
  /\ UNCHANGED << mode, registry, listener, quota, sent, pending, peerShut, data,
                  lastDecode, looped, request, result, outbuf, fallback, writes, calls >>
  /\ UNCHANGED << eofRead, failure >>

\* Faulty variant of Write: after writing, the task reads what is left on the
\* stream before it ends.
WriteThenDrain(c) ==
  /\ pc[c] = "Responding"
  /\ \E ok \in BOOLEAN :
       /\ writes' = [writes EXCEPT ![c] = Append(@, [buf |-> outbuf[c].v, ok |-> ok])]
       /\ outcome' = [outcome EXCEPT ![c] = IF ok THEN "responded" ELSE "write_failed"]
  /\ pc' = [pc EXCEPT ![c] = "Closed"]
  /\ pending' = [pending EXCEPT ![c] = << >>]
  /\ data' = [data EXCEPT ![c] = data[c] \o pending[c]]
  /\ UNCHANGED << mode, registry, listener, quota, sent, peerShut, lastDecode, looped,
                  request, result, outbuf, fallback, calls, eofRead, failure >>

\* Faulty variant of Write: the task goes back to writing instead of ending.
WriteKeepOpen(c) ==
  /\ pc[c] = "Responding"
  /\ Len(writes[c]) < 3
  /\ \E ok \in BOOLEAN :
       writes' = [writes EXCEPT ![c] = Append(@, [buf |-> outbuf[c].v, ok |-> ok])]
  /\ UNCHANGED << mode, registry, listener, quota, pc, sent, pending, peerShut, data,
                  lastDecode, looped, request, result, outbuf, fallback, calls, outcome >>
  /\ UNCHANGED << eofRead, failure >>

\* stream.write_all(&buf).await, then the task ends and the stream is dropped.
Write(c) ==
  /\ pc[c] = "Responding"
  /\ \E ok \in BOOLEAN :
       /\ writes' = [writes EXCEPT ![c] = Append(@, [buf |-> outbuf[c].v, ok |-> ok])]
       /\ outcome' = [outcome EXCEPT ![c] = IF ok THEN "responded" ELSE "write_failed"]
  /\ pc' = [pc EXCEPT ![c] = "Closed"]
  /\ UNCHANGED << mode, registry, listener, quota, sent, pending, peerShut, data,
                  lastDecode, looped, request, result, outbuf, fallback, calls >>
  /\ UNCHANGED << eofRead, failure >>

ConnStep(c) ==
  \/ PeerShutdown(c)
  \/ ReadChunk(c)
  \/ ReadEof(c)
  \/ ReadError(c)
  \/ Dispatch(c)
  \/ HandlerReturn(c)
  \/ EncodeOk(c)
  \/ EncodeFallback(c)
  \/ EncodeGiveUp(c)
  \/ Write(c)

Next ==
  \/ \E c \in Conns : Accept(c)
  \/ AcceptFail
  \/ \E c \in Conns : ConnStep(c)

Spec == Init /\ [][Next]_vars

SpecIso == InitIso /\ [][Next]_vars

SpecDescribe == InitDescribe /\ [][Next]_vars

\* The steps a connection task takes by itself once the runtime polls it: a
\* read that returns (bytes or end of stream), dispatch, encoding, the write.
\* A read failing, the peer closing and the callable returning are up to
\* others.
TaskStep(c) ==
  \/ ReadChunk(c)
  \/ ReadEof(c)
  \/ Dispatch(c)
  \/ EncodeOk(c)
  \/ EncodeFallback(c)
  \/ EncodeGiveUp(c)
  \/ Write(c)

\* One connection under a fair scheduler: a task that can step is polled.
\* The peer closes its write side once it has sent its bytes and they were
\* read, and an invoked callable returns.
SpecLive ==
  /\ Init
  /\ [][Next]_vars
  /\ \A c \in Conns :
       /\ WF_vars(TaskStep(c))
       /\ WF_vars(PeerShutdown(c))
       /\ WF_vars(HandlerReturn(c))

\* ------------------------------------------------------------------------
\* Properties
\* ------------------------------------------------------------------------

Last(s) == s[Len(s)]

\* C1. Framing completeness: a connection that is sent a valid encoded
\* Request, however its bytes are cut into reads, never ends in a framing
\* failure of the framer's own making; once all its bytes are read (and no
\* read failed) read_request has returned, and the Request it returns is the
\* decode of the whole encoding.
FramingCompleteness ==
  \A c \in Conns :
    (pc[c] # "Idle" /\ sent[c] \in ValidMessages) =>
      /\ outcome[c] \notin {"framing_failed", "panicked"}
      /\ (pending[c] = << >> /\ outcome[c] # "read_failed") => request[c].some
      /\ request[c].some =>
           /\ data[c] = sent[c]
           /\ from_bencode(sent[c]).ok
           /\ request[c].v = from_bencode(sent[c]).req

\* A valid Invoke arrived in more than one read (the loop went round at
\* least once) and read_request returned it.
FramingCompletenessWitness ==
  \E c \in Conns :
    /\ sent[c] \in ValidMessages
    /\ Len(sent[c]) > 20
    /\ looped[c]
    /\ lastDecode[c] = "full"
    /\ request[c].some
    /\ request[c].v.op = "Invoke"
    /\ request[c].v.var = Some(S_MA)

\* C2. Framing non-premature-completion: read_request has returned a Request
\* only when the accumulated buffer decodes, to that Request; and a task whose
\* buffer ends in 'e' without decoding, and that has not ended, is still in
\* the read loop.
NonPrematureCompletion ==
  \A c \in Conns :
    /\ pc[c] \in {"Dispatching", "Invoking", "Encoding", "Responding"} => request[c].some
    /\ request[c].some =>
         /\ data[c] # << >>
         /\ Last(data[c]) = "e"
         /\ from_bencode(data[c]).ok
         /\ from_bencode(data[c]).req = request[c].v
    /\ (data[c] # << >> /\ Last(data[c]) = "e" /\ ~from_bencode(data[c]).ok
        /\ outcome[c] = "") => (pc[c] = "Framing" /\ ~request[c].some)

\* The buffer ends in the delimiter, the full decode was tried after a read
\* of at least one byte and failed, there are more bytes to come, and the
\* framer is still reading.
NonPrematureCompletionWitness ==
  \E c \in Conns :
    /\ pc[c] = "Framing"
    /\ sent[c] \in ValidMessages
    /\ lastDecode[c] = "full"
    /\ looped[c]
    /\ Last(data[c]) = "e"
    /\ pending[c] # << >>

\* C3. Empty-buffer edge case: a connection whose peer closes without sending
\* anything ends with an ordinary framing failure, not with a crash of the
\* completeness check.
EmptyBufferNoCrash ==
  \A c \in Conns :
    (pc[c] = "Closed" /\ sent[c] = << >> /\ outcome[c] # "read_failed")
      => outcome[c] = "framing_failed"

\* C4. Handler failure keeps the id: when the callable of an Invoke hit
\* fails, the response written is an ErrorResponse carrying the request's id
\* (absent only if the request had none).
HandlerFailureKeepsId ==
  \A c \in Conns :
    (calls[c] # << >> /\ result[c].some /\ ~result[c].v.ok /\ writes[c] # << >>) =>
      writes[c][1].buf =
        Response_encode([variant |-> "Error", id |-> request[c].v.id, status |-> "Error",
                         ex_message |-> NetpodError_to_string(result[c].v.err)])

\* Keys of the registry, and the requests that miss or hit it.
IsInvoke(c) == request[c].some /\ request[c].v.op = "Invoke"

IsMiss(c) ==
  IsInvoke(c) /\ (~request[c].v.var.some \/ request[c].v.var.v \notin DOMAIN registry)

IsHit(c) ==
  IsInvoke(c) /\ request[c].v.var.some /\ request[c].v.var.v \in DOMAIN registry

\* C5. Invoke miss: an Invoke whose var is absent or is no registry key gets
\* an ErrorResponse with the request's id, status Error and a message naming
\* the var (or its absence), and no callable is invoked.
InvokeMiss ==
  \A c \in Conns :
    IsMiss(c) =>
      /\ calls[c] = << >>
      /\ pc[c] # "Invoking"
      /\ pc[c] \in {"Encoding", "Responding", "Closed"} => result[c].some
      /\ result[c].some =>
           /\ result[c].v.ok
           /\ result[c].v.resp.variant = "Error"
           /\ result[c].v.resp.id = request[c].v.id
           /\ result[c].v.resp.status = "Error"
           /\ result[c].v.resp.ex_message =
                (IF request[c].v.var.some
                   THEN << "error no handler for ", request[c].v.var.v >>
                   ELSE << "request lacks var name" >>)
      /\ (writes[c] # << >> /\ ~fallback[c]) =>
           writes[c][1].buf = Response_encode(result[c].v.resp)

\* A request with an id names only the namespace of registered keys, and the
\* ErrorResponse for it was written.
InvokeMissWitness ==
  \E c \in Conns :
    /\ IsMiss(c)
    /\ request[c].v.var = Some(S_M)
    /\ request[c].v.id = Some(<< "7" >>)
    /\ S_MA \in DOMAIN registry
    /\ outcome[c] = "responded"
    /\ ~fallback[c]

\* C6. Invoke hit: an Invoke whose var is a registry key invokes that key's
\* callable, once, with the whole request; what dispatch returns is what the
\* callable returned (for the echo callable: an InvokeResponse with the
\* request's id, status Done and the callable's value), and that is what is
\* encoded and written.
InvokeHit ==
  \A c \in Conns :
    (IsHit(c) /\ pc[c] # "Dispatching") =>
      /\ calls[c] = << [key |-> request[c].v.var.v, req |-> request[c].v] >>
      /\ pc[c] \in {"Encoding", "Responding", "Closed"} => result[c].some
      /\ result[c].some =>
           LET behaviour == registry[request[c].v.var.v]
               res == result[c].v
           IN /\ behaviour = "fail" <=> ~res.ok
              /\ behaviour = "echo" =>
                   /\ res.resp.variant = "Invoke"
                   /\ res.resp.id = UnwrapOr(request[c].v.id, << >>)
                   /\ res.resp.status = "Done"
                   /\ res.resp.value = UnwrapOr(request[c].v.args, << >>)
              /\ behaviour = "reject" => res.resp.variant = "Error"
              /\ (res.ok /\ writes[c] # << >> /\ ~fallback[c]) =>
                   writes[c][1].buf = Response_encode(res.resp)

\* An Invoke of the echo callable with id and args was answered.
InvokeHitWitness ==
  \E c \in Conns :
    /\ IsHit(c)
    /\ registry[request[c].v.var.v] = "echo"
    /\ request[c].v.id = Some(<< "7" >>)
    /\ request[c].v.args # None
    /\ outcome[c] = "responded"
    /\ ~fallback[c]
    /\ writes[c][1].buf =
         << << "id", << "7" >> >>, << "status", "done" >>, << "value", request[c].v.args.v >> >>

\* The namespace and the var name of a registry key that holds a '/'.
HasSlash(k) == \E i \in 1..Len(k) : k[i] = "/"
FirstSlash(k) == CHOOSE i \in 1..Len(k) : k[i] = "/" /\ \A j \in 1..(i - 1) : k[j] # "/"
NsOf(k) == SubSeq(k, 1, FirstSlash(k) - 1)
VarOf(k) == SubSeq(k, FirstSlash(k) + 1, Len(k))

\* C7. Describe grouping: the Describe response has format "json", one
\* Namespace per distinct part-before-the-first-'/' of the keys that hold a
\* '/', and in each Namespace one Var per such key, named by the part after
\* the first '/'; keys without '/' contribute nothing.
DescribeGrouping ==
  \A c \in Conns :
    (request[c].some /\ request[c].v.op = "Describe"
     /\ pc[c] \in {"Encoding", "Responding", "Closed"}) =>
      /\ result[c].some
      /\ result[c].v.ok
      /\ LET r == result[c].v.resp
             keys == { k \in DOMAIN registry : HasSlash(k) }
             names == { NsOf(k) : k \in keys }
         IN /\ r.variant = "Describe"
            /\ r.format = "json"
            /\ Len(r.namespaces) = Cardinality(names)
            /\ { r.namespaces[i].name : i \in 1..Len(r.namespaces) } = names
            /\ \A i \in 1..Len(r.namespaces) :
                 LET ns == r.namespaces[i]
                     mine == { k \in keys : NsOf(k) = ns.name }
                 IN /\ Len(ns.vars) = Cardinality(mine)
                    /\ { ns.vars[j] : j \in 1..Len(ns.vars) } = { VarOf(k) : k \in mine }
            /\ (writes[c] # << >> /\ ~fallback[c]) =>
                 writes[c][1].buf = DescribeResponse_encode(r)

\* A Describe against the registry {"x", "m/a/b", "m/a"} was answered: one
\* namespace "m" with the vars "a/b" and "a", nothing for "x".
DescribeGroupingWitness ==
  \E c \in Conns :
    /\ request[c].some
    /\ request[c].v.op = "Describe"
    /\ S_X \in DOMAIN registry
    /\ S_MAB \in DOMAIN registry
    /\ outcome[c] = "responded"
    /\ ~fallback[c]
    /\ Len(result[c].v.resp.namespaces) = 1
    /\ result[c].v.resp.namespaces[1].vars = << << "a", "/", "b" >>, S_A >>

\* The state part of C8.
OneWriteInv ==
  \A c \in Conns :
    /\ Len(writes[c]) <= 1
    /\ writes[c] # << >> =>
         (request[c].some /\ outbuf[c].some /\ writes[c][1].buf = outbuf[c].v)
    /\ (pc[c] = "Closed" /\ outbuf[c].some) => Len(writes[c]) = 1
    /\ outbuf[c].some => request[c].some

\* C8. One request, one response per connection: a task's Request, once
\* decoded, is never replaced; at most one write is made, of the bytes that
\* were encoded, and only after a Request was decoded; a task that has ended
\* with a Request decoded and a response (or fallback) encoded has made
\* exactly one write attempt.
OneRequestOneResponse ==
  /\ []OneWriteInv
  /\ [][\A c \in Conns :
          /\ request[c].some => request'[c] = request[c]
          /\ Len(writes'[c]) <= Len(writes[c]) + 1
          /\ pc[c] = "Closed" => (pc'[c] = "Closed" /\ writes'[c] = writes[c])]_vars

\* A task has decoded its Request, written its response and ended.
OneRequestOneResponseWitness ==
  \E c \in Conns :
    /\ pc[c] = "Closed"
    /\ request[c].some
    /\ Len(writes[c]) = 1
    /\ writes[c][1].ok

\* C9. Framing failure sends nothing: a task whose read_request failed (a
\* read error, or end of stream without a valid decode, the crash on the
\* empty buffer included) has written nothing, has invoked no callable, has
\* no Request and is closed.
FramingFailureSendsNothing ==
  \A c \in Conns :
    outcome[c] \in {"read_failed", "framing_failed", "panicked"} =>
      /\ writes[c] = << >>
      /\ calls[c] = << >>
      /\ ~request[c].some
      /\ ~result[c].some
      /\ ~outbuf[c].some
      /\ pc[c] = "Closed"

\* A truncated dictionary, ending in the delimiter, met end of stream after
\* all its bytes were read and the final decode failed.
FramingFailureWitness ==
  \E c \in Conns :
    /\ outcome[c] = "framing_failed"
    /\ sent[c] = M_TRUNCATED
    /\ data[c] = M_TRUNCATED
    /\ lastDecode[c] = "full"
    /\ peerShut[c]

\* What a connection sent the bytes m gets when it is the only one: the
\* result of handle_request, and the buffers that can be written for it (the
\* encoded response or, when encoding it fails, the encoded fallback).
AloneResult(m) ==
  LET req == from_bencode(m).req
      h == handle_invoke(registry, req)
  IN IF h.kind = "miss" THEN h.result ELSE CallableResult(registry[h.key], req)

AloneBuffers(m) ==
  LET res == AloneResult(m) IN
  IF res.ok THEN
    { Response_encode(res.resp),
      Response_encode(err_response(None, ErrBendyEncoding("encoding error"))) }
  ELSE { Response_encode(err_response(None, res.err)) }

IsPrefix(a, b) == Len(a) <= Len(b) /\ a = SubSeq(b, 1, Len(a))

\* Each connection's outcome is that of its own input.
IsolationInv ==
  \A c \in Conns :
    /\ IsPrefix(data[c], sent[c])
    /\ \A i \in 1..Len(calls[c]) : request[c].some /\ calls[c][i].req = request[c].v
    /\ sent[c] \in IsoInvokes =>
         /\ outcome[c] \notin {"panicked", "framing_failed"}
         /\ pending[c] = << >> => (request[c].some \/ outcome[c] = "read_failed")
         /\ request[c].some => request[c].v = from_bencode(sent[c]).req
         /\ result[c].some => result[c].v = AloneResult(sent[c])
         /\ \A i \in 1..Len(writes[c]) : writes[c][i].buf \in AloneBuffers(sent[c])
         /\ Len(writes[c]) <= 1
    /\ (pc[c] # "Idle" /\ sent[c] \in IsoMalformed) =>
         /\ writes[c] = << >>
         /\ calls[c] = << >>
         /\ ~request[c].some
         /\ pc[c] = "Closed" => outcome[c] \in {"panicked", "framing_failed", "read_failed"}

\* C10. Isolation: with a malformed connection (one that makes its task
\* crash included) running concurrently with a valid Invoke, the valid
\* connection gets what it would get alone, and no step of a connection task
\* stops the accept loop: the listener changes only in a step that touches no
\* connection (its own accept failing).
Isolation ==
  /\ []IsolationInv
  /\ [][listener' # listener => UNCHANGED connVars]_vars
  /\ [][\A c \in Conns : pc'[c] # pc[c] =>
          \A d \in Conns \ {c} :
            /\ data'[d] = data[d]
            /\ sent'[d] = sent[d]
            /\ request'[d] = request[d]
            /\ result'[d] = result[d]
            /\ writes'[d] = writes[d]
            /\ calls'[d] = calls[d]
            /\ outcome'[d] = outcome[d]]_vars

\* The malformed connection's task crashed while the Invoke was being read,
\* the Invoke was answered with its own response, and the accept loop is
\* still listening.
IsolationWitness ==
  /\ listener = "listening"
  /\ outcome[1] = "panicked"
  /\ sent[2] \in IsoInvokes
  /\ looped[2]
  /\ from_bencode(sent[2]).req.var = Some(S_MA)
  /\ outcome[2] = "responded"
  /\ ~fallback[2]
  /\ writes[2] = << [buf |-> << << "id", << "7" >> >>, << "status", "done" >>,
                               << "value", << >> >> >>,
                     ok |-> TRUE] >>

\* The stage changes handle_client can make.  Awaiting the callable
\* ("Invoking") is part of dispatching.
StageMoves ==
  { << "Idle", "Framing" >>, << "Framing", "Dispatching" >>, << "Framing", "Closed" >>,
    << "Dispatching", "Invoking" >>, << "Dispatching", "Encoding" >>,
    << "Invoking", "Encoding" >>, << "Encoding", "Responding" >>,
    << "Encoding", "Closed" >>, << "Responding", "Closed" >> }

StageOrderInv ==
  \A c \in Conns :
    /\ calls[c] # << >> => (request[c].some /\ pc[c] \notin {"Idle", "Framing", "Dispatching"})
    /\ result[c].some => pc[c] \in {"Encoding", "Responding", "Closed"}
    /\ outbuf[c].some => (result[c].some /\ pc[c] \in {"Responding", "Closed"})
    /\ writes[c] # << >> => (outbuf[c].some /\ pc[c] = "Closed")
    /\ pc[c] \in {"Dispatching", "Invoking"} => (request[c].some /\ ~result[c].some)

\* C11. Stage ordering within a connection: the stage only moves forward
\* along Framing, Dispatching, Encoding, Responding (or to Closed from where a
\* stage can fail); a callable is invoked only in the dispatching stage, with
\* the Request framing returned; a write is made only in the responding
\* stage, after dispatch has produced its result and it was encoded; and
\* once framing has ended nothing more is read from the connection.
StageOrdering ==
  /\ []StageOrderInv
  /\ [][\A c \in Conns :
          /\ pc'[c] # pc[c] => << pc[c], pc'[c] >> \in StageMoves
          /\ calls'[c] # calls[c] => (pc[c] = "Dispatching" /\ request[c].some)
          /\ result'[c] # result[c] => pc[c] \in {"Dispatching", "Invoking"}
          /\ outbuf'[c] # outbuf[c] => (pc[c] = "Encoding" /\ result[c].some)
          /\ writes'[c] # writes[c] => (pc[c] = "Responding" /\ result[c].some)
          /\ pc[c] \notin {"Idle", "Framing"} =>
               /\ pending'[c] = pending[c]
               /\ data'[c] = data[c]
               /\ eofRead'[c] = eofRead[c]
               /\ lastDecode'[c] = lastDecode[c]
               /\ request'[c] = request[c]]_vars

\* A task went through every stage: it read its request in several reads,
\* invoked a callable, encoded the result and wrote it, leaving bytes of the
\* stream unread.
StageOrderingWitness ==
  \E c \in Conns :
    /\ pc[c] = "Closed"
    /\ looped[c]
    /\ calls[c] # << >>
    /\ result[c].some
    /\ outcome[c] = "responded"

\* The keys of an encoded response, and the value it has under a key.
EncodedKeys(buf) == { buf[i][1] : i \in DOMAIN buf }
EncodedValue(buf, key) == buf[CHOOSE i \in DOMAIN buf : buf[i][1] = key][2]

\* C12. Encoding fallback: when the response handle_request returned cannot
\* be encoded, what the task encodes and writes is a generic ErrorResponse
\* with no id, status "error" and a message describing the encoding failure
\* (whatever the request's id was); when the fallback cannot be encoded
\* either, the task ends having written nothing.
EncodingFallback ==
  \A c \in Conns :
    /\ fallback[c] =>
         /\ result[c].some /\ result[c].v.ok
         /\ outbuf[c].some
         /\ EncodedKeys(outbuf[c].v) = {"ex-message", "status"}
         /\ EncodedValue(outbuf[c].v, "status") = "error"
         /\ EncodedValue(outbuf[c].v, "ex-message")
              = << "bendy encoding error: ", "encoding error" >>
         /\ pc[c] = "Closed" =>
              /\ Len(writes[c]) = 1
              /\ writes[c][1].buf = outbuf[c].v
    /\ (outbuf[c].some /\ result[c].v.ok /\ ~fallback[c]) =>
         outbuf[c].v = Response_encode(result[c].v.resp)
    /\ outcome[c] = "encode_failed" => (writes[c] = << >> /\ ~outbuf[c].some)

\* The fallback was written for a request that carried an id, and another
\* behaviour ended with the fallback failing to encode too.
EncodingFallbackWitness ==
  \E c \in Conns :
    /\ fallback[c]
    /\ request[c].v.id.some
    /\ pc[c] = "Closed"
    /\ writes[c] # << >>

EncodingFallbackGiveUpWitness ==
  \E c \in Conns :
    /\ outcome[c] = "encode_failed"
    /\ result[c].v.ok

\* The request dictionaries with no op field or an unrecognised op string.
DefaultOpWires == { w \in WireOthers : w.op # Some(W_DESCRIBE) }

\* C13. Default op: a request dictionary with no op field, or with an op
\* string other than "describe" and "invoke", is not rejected: it decodes to
\* a Request with op = Describe and the other fields as sent, no callable is
\* invoked for it, and the result dispatched is a DescribeResponse, which is
\* what gets written.
DefaultOp ==
  \A c \in Conns : \A w \in DefaultOpWires :
    sent[c] = EncodeRequest(w) =>
      /\ decode_request(sent[c]).kind = "ok"
      /\ outcome[c] # "framing_failed"
      /\ calls[c] = << >>
      /\ request[c].some =>
           request[c].v = MkRequest("Describe", w.id, w.var, w.args)
      /\ result[c].some =>
           /\ result[c].v.ok
           /\ result[c].v.resp \in handle_describe(registry)
      /\ (writes[c] # << >> /\ ~fallback[c]) =>
           /\ "namespaces" \in EncodedKeys(writes[c][1].buf)
           /\ writes[c][1].buf = Response_encode(result[c].v.resp)

\* A request with the op string "nop", an id and a var was answered with a
\* DescribeResponse.
DefaultOpWitness ==
  \E c \in Conns :
    /\ sent[c] = EncodeRequest([op |-> Some(<< "n", "o", "p" >>), id |-> Some(<< "7" >>),
                                var |-> Some(S_MA), args |-> None])
    /\ outcome[c] = "responded"
    /\ ~fallback[c]
    /\ result[c].v.resp.variant = "Describe"

\* The same for a request with no op field.
DefaultOpAbsentWitness ==
  \E c \in Conns :
    /\ sent[c] = EncodeRequest([op |-> None, id |-> Some(<< "7" >>),
                                var |-> Some(S_MA), args |-> None])
    /\ outcome[c] = "responded"
    /\ ~fallback[c]
    /\ result[c].v.resp.variant = "Describe"

\* The pairs of a dictionary whose key is none of id, var, args, op, and
\* the pairs whose value is not a byte string.
UnknownAt(d) == { i \in DOMAIN d : d[i][1] \notin {K_ID, K_VAR, K_ARGS, K_OP} }
NonStringAt(d) == { i \in DOMAIN d : d[i][2][1] \notin Digits }
FirstOf(S) == CHOOSE i \in S : \A j \in S : i <= j

\* The statement of C14 as written: the decode of a dictionary with a key
\* outside {id, var, args, op} fails with an unexpected-field error naming
\* that key, whatever the other fields are, and no Request is produced.
UnknownFieldNamed ==
  \A c \in Conns : \A d \in UnknownFieldDicts :
    sent[c] = EncodeDict(d) =>
      /\ ~request[c].some
      /\ outcome[c] = "framing_failed" =>
           \A i \in UnknownAt(d) :
             failure[c] = [err |-> "UnexpectedField", field |-> d[i][1]]

\* C14. Unknown field rejection: no Request is produced from a dictionary
\* that contains a key outside {id, var, args, op}, no callable is invoked
\* and nothing is written for it.  Decoding stops at the first pair it
\* rejects: the error is an unexpected-field error naming the first unknown
\* key when every pair before that key has a string value, and otherwise the
\* type error of the first earlier pair whose value is not a string.
UnknownFieldRejection ==
  \A c \in Conns : \A d \in UnknownFieldDicts :
    sent[c] = EncodeDict(d) =>
      /\ ~from_bencode(sent[c]).ok
      /\ ~request[c].some
      /\ calls[c] = << >>
      /\ writes[c] = << >>
      /\ outcome[c] = "framing_failed" =>
           LET u == FirstOf(UnknownAt(d))
               bad == { i \in NonStringAt(d) : i < u }
           IN IF bad = {}
                THEN failure[c] = [err |-> "UnexpectedField", field |-> d[u][1]]
                ELSE failure[c] = [err |-> "UnexpectedToken", field |-> d[FirstOf(bad)][1]]

\* The dictionary with a valid id followed by the unknown key "x" was read
\* to EOF and rejected naming "x".
UnknownFieldRejectionWitness ==
  \E c \in Conns :
    /\ sent[c] = EncodeDict(D_UNKNOWN_LAST)
    /\ outcome[c] = "framing_failed"
    /\ failure[c] = [err |-> "UnexpectedField", field |-> << "x" >>]

\* The dictionary whose id is an integer was rejected for its id, without
\* "x" being named.
UnknownFieldEarlierErrorWitness ==
  \E c \in Conns :
    /\ sent[c] = EncodeDict(D_UNKNOWN_BADID)
    /\ outcome[c] = "framing_failed"
    /\ failure[c] = [err |-> "UnexpectedToken", field |-> K_ID]

\* The written buffer is an ErrorResponse (the caller tells by ex-message).
IsErrorBuf(buf) == "ex-message" \in EncodedKeys(buf)

\* The origins of a written ErrorResponse: the dispatcher found no callable
\* for the request; the invoked callable failed, or answered with an
\* ErrorResponse of its own; the response could not be encoded and the
\* fallback was.
FromDispatchMiss(c, buf) ==
  /\ IsMiss(c)
  /\ calls[c] = << >>
  /\ buf = Response_encode(handle_invoke(registry, request[c].v).result.resp)

FromCallable(c, buf) ==
  /\ IsHit(c)
  /\ calls[c] # << >>
  /\ LET r == CallableResult(registry[calls[c][1].key], calls[c][1].req) IN
     IF r.ok THEN r.resp.variant = "Error" /\ buf = Response_encode(r.resp)
     ELSE buf = Response_encode(handler_err_response(request[c].v.id, r.err))

FromEncodeFallback(c, buf) ==
  /\ fallback[c]
  /\ buf = Response_encode(err_response(None, ErrBendyEncoding("encoding error")))

\* A failed read or a failed framing (schema errors included) writes nothing.
SilentFailures ==
  \A c \in Conns :
    (failure[c] # NoFailure \/ outcome[c] \in {"read_failed", "framing_failed", "panicked"})
      => writes[c] = << >>

\* The statement of C15 as written: every ErrorResponse written comes from a
\* dispatch miss or a callable's failure, and transport, framing, schema and
\* encode errors never cause bytes to be written.
ErrorVisibilityNoEncode ==
  /\ SilentFailures
  /\ \A c \in Conns :
       /\ fallback[c] => writes[c] = << >>
       /\ outcome[c] = "encode_failed" => writes[c] = << >>
       /\ \A i \in DOMAIN writes[c] :
            IsErrorBuf(writes[c][i].buf) =>
              \/ FromDispatchMiss(c, writes[c][i].buf)
              \/ FromCallable(c, writes[c][i].buf)

\* C15. Error visibility: every ErrorResponse written to a connection comes
\* from a dispatch miss, from an invoked callable, or from the encode
\* fallback that stands in for a response that could not be encoded;
\* transport, framing and schema errors, and an encode error on the last
\* response there is to encode (the fallback, or the ErrorResponse of a
\* failed callable), never cause bytes to be written.
ErrorVisibility ==
  /\ SilentFailures
  /\ \A c \in Conns :
       /\ outcome[c] = "encode_failed" => writes[c] = << >>
       /\ \A i \in DOMAIN writes[c] :
            IsErrorBuf(writes[c][i].buf) =>
              \/ ~fallback[c] /\ FromDispatchMiss(c, writes[c][i].buf)
              \/ ~fallback[c] /\ FromCallable(c, writes[c][i].buf)
              \/ FromEncodeFallback(c, writes[c][i].buf)

\* The fallback ErrorResponse was written for a Describe, whose dispatch
\* cannot fail; in other behaviours a miss and a failed callable were
\* answered, and a schema error ended the connection silently.
ErrorVisibilityWitness ==
  \E c \in Conns :
    /\ request[c].some
    /\ request[c].v.op = "Describe"
    /\ fallback[c]
    /\ writes[c] # << >>
    /\ IsErrorBuf(writes[c][1].buf)

ErrorVisibilityMissWitness ==
  \E c \in Conns : writes[c] # << >> /\ ~fallback[c] /\ FromDispatchMiss(c, writes[c][1].buf)

ErrorVisibilityCallableWitness ==
  \E c \in Conns :
    /\ writes[c] # << >> /\ ~fallback[c] /\ FromCallable(c, writes[c][1].buf)
    /\ ~result[c].v.ok

ErrorVisibilitySilentWitness ==
  \E c \in Conns :
    /\ failure[c].err = "UnexpectedField"
    /\ pc[c] = "Closed"
    /\ writes[c] = << >>

\* C16. EOF is terminal: once a read has returned zero bytes, the framer has
\* made one final decode attempt on the accumulated buffer and returned its
\* outcome, the Request or a framing error, and framing is over: it reads
\* no more.
EofIsTerminal ==
  \A c \in Conns :
    eofRead[c] =>
      /\ pc[c] # "Framing"
      /\ lastDecode[c] \in {"full", "skipped"}
      /\ \/ request[c].some
         \/ outcome[c] = "framing_failed" /\ failure[c] # NoFailure

\* The same with the empty buffer left out: it holds whenever at least one
\* byte was read before the end of stream, and nothing is read after it.
EofIsTerminalNonEmpty ==
  /\ [](\A c \in Conns :
          (eofRead[c] /\ data[c] # << >>) =>
            /\ pc[c] = "Closed"
            /\ outcome[c] = "framing_failed"
            /\ failure[c] # NoFailure
            /\ ~request[c].some)
  /\ [][\A c \in Conns :
          eofRead[c] => /\ data'[c] = data[c]
                        /\ pending'[c] = pending[c]
                        /\ lastDecode'[c] = lastDecode[c]
                        /\ pc'[c] = pc[c]]_vars

\* C17. Cheap completeness check: the full decode was attempted on the
\* buffer only if its last byte is 'e' (and the check then always attempts
\* it); when the last byte is anything else the check reported "keep
\* reading" without decoding, no Request was returned, and the framer is
\* reading on or has failed at end of stream with that very error.
CheapCompletenessCheck ==
  \A c \in Conns :
    /\ lastDecode[c] = "full" => (data[c] # << >> /\ Last(data[c]) = "e")
    /\ (data[c] # << >> /\ Last(data[c]) = "e") => lastDecode[c] = "full"
    /\ (data[c] # << >> /\ Last(data[c]) # "e") =>
         /\ lastDecode[c] = "skipped"
         /\ decode_request(data[c]).err = "keep reading"
         /\ ~request[c].some
         /\ \/ pc[c] = "Framing" /\ outcome[c] = ""
            \/ pc[c] = "Closed" /\ outcome[c] = "read_failed"
            \/ /\ pc[c] = "Closed"
               /\ outcome[c] = "framing_failed"
               /\ eofRead[c]
               /\ failure[c] = [err |-> "keep reading", field |-> << >>]

\* A buffer not ending in 'e' was skipped and the framer went on reading,
\* with bytes still to come.
CheapCompletenessCheckWitness ==
  \E c \in Conns :
    /\ lastDecode[c] = "skipped"
    /\ looped[c]
    /\ pc[c] = "Framing"
    /\ pending[c] # << >>
    /\ Last(data[c]) # "e"

\* A buffer not ending in 'e' failed at end of stream.
CheapCompletenessCheckEofWitness ==
  \E c \in Conns :
    /\ lastDecode[c] = "skipped"
    /\ eofRead[c]
    /\ outcome[c] = "framing_failed"

\* The status a response carries agrees with its variant, as a value and
\* as encoded.
StatusOfVariant(r) ==
  /\ r.variant = "Invoke" => r.status = "Done"
  /\ r.variant = "Error" => r.status = "Error"

StatusOfBuf(buf) ==
  /\ "value" \in EncodedKeys(buf) => EncodedValue(buf, "status") = "done"
  /\ "ex-message" \in EncodedKeys(buf) => EncodedValue(buf, "status") = "error"
  /\ "status" \in EncodedKeys(buf) =>
       ("value" \in EncodedKeys(buf) \/ "ex-message" \in EncodedKeys(buf))

\* C18. Status matches variant: in every reachable state every
\* InvokeResponse produced, encoded or written has status Done and every
\* ErrorResponse produced, encoded or written has status Error, whether it
\* comes from a dispatch miss, a callable's result, a callable's failure or
\* the encode fallback.
StatusMatchesVariant ==
  \A c \in Conns :
    /\ (result[c].some /\ result[c].v.ok) => StatusOfVariant(result[c].v.resp)
    /\ (result[c].some /\ ~result[c].v.ok) =>
         StatusOfVariant(handler_err_response(request[c].v.id, result[c].v.err))
    /\ outbuf[c].some => StatusOfBuf(outbuf[c].v)
    /\ \A i \in DOMAIN writes[c] : StatusOfBuf(writes[c][i].buf)

\* An ErrorResponse for a failed callable was written with status "error";
\* in other behaviours an InvokeResponse, a miss and the fallback were.
StatusMatchesVariantWitness ==
  \E c \in Conns :
    /\ calls[c] # << >>
    /\ result[c].some
    /\ ~result[c].v.ok
    /\ writes[c] # << >>
    /\ EncodedValue(writes[c][1].buf, "status") = "error"

StatusDoneWitness ==
  \E c \in Conns :
    /\ result[c].some /\ result[c].v.ok /\ result[c].v.resp.variant = "Invoke"
    /\ writes[c] # << >>
    /\ ~fallback[c]
    /\ EncodedValue(writes[c][1].buf, "status") = "done"

ConnectionTerminationCallWitness ==
  \E c \in Conns : pc[c] = "Closed" /\ calls[c] # << >> /\ looped[c]

\* The DescribeResponses a registry with the key set keys can give: the
\* callables behind the keys are replaced by one and the same.
DescribeOfKeys(keys) == handle_describe([k \in keys |-> "echo"])

IsDescribe(c) == request[c].some /\ request[c].v.op = "Describe"

DescribeNoSideEffectsInv ==
  \A c \in Conns :
    IsDescribe(c) =>
      /\ calls[c] = << >>
      /\ pc[c] # "Invoking"
      /\ pc[c] \in {"Encoding", "Responding", "Closed"} =>
           /\ result[c].some
           /\ result[c].v.ok
           /\ result[c].v.resp \in DescribeOfKeys(DOMAIN registry)
      /\ (writes[c] # << >> /\ ~fallback[c]) =>
           writes[c][1].buf = Response_encode(result[c].v.resp)

\* C20. Describe has no side effects on handlers: a request with op =
\* Describe invokes no callable, its response is one the registry's key set
\* alone determines (whatever the request's id, var and args and whatever the
\* other connections are doing), and its dispatch changes neither the
\* registry nor anything of another connection.
DescribeNoSideEffects ==
  /\ []DescribeNoSideEffectsInv
  /\ [][\A c \in Conns :
          (IsDescribe(c) /\ pc[c] = "Dispatching" /\ pc'[c] # pc[c]) =>
            /\ registry' = registry
            /\ calls' = calls
            /\ listener' = listener
            /\ \A d \in Conns \ {c} :
                 /\ pc'[d] = pc[d]
                 /\ result'[d] = result[d]
                 /\ request'[d] = request[d]
                 /\ writes'[d] = writes[d]]_vars

\* A Describe carrying id, var and args was answered from a registry that
\* holds the var it names, while another connection had its callable
\* invoked.
DescribeNoSideEffectsWitness ==
  \E c \in Conns : \E d \in Conns \ {c} :
    /\ IsDescribe(c)
    /\ request[c].v.var = Some(S_MA)
    /\ request[c].v.args.some
    /\ S_MA \in DOMAIN registry
    /\ outcome[c] = "responded"
    /\ ~fallback[c]
    /\ calls[d] # << >>
    /\ pc[d] = "Invoking"

====
